---- MODULE Spec2Model ----
(***************************************************************************)
(* State-machine model of py/providers/openai_codex.py: the provider       *)
(* constructor (option normalisation, command check), request() (prompt    *)
(* compilation, payload building) and the lazy response iterator           *)
(* (_openai_request generator behind map/filter).                          *)
(*                                                                         *)
(* Strings are sequences of characters.  Strings that the code only        *)
(* compares or copies as a whole (option names, header names, role names,  *)
(* the model name, the URL) are kept as TLA+ strings.                      *)
(*                                                                         *)
(* One provider is constructed and serves one request.  urlopen and the    *)
(* reads of the response are taken to succeed: the transport's own errors  *)
(* are not modelled.                                                       *)
(***************************************************************************)
EXTENDS Integers, Sequences, FiniteSets, TLC

VARIABLES
    command_type,   \* argument of __init__
    raw_options,    \* argument of __init__
    pc,             \* "new" | "constructed" | "failed" | "requested"
    options,        \* self.options (the empty mapping until it is assigned)
    error,          \* the error raised by the last failing call
    messages,       \* argument of request()
    credential,     \* what utils.load_api_key returns
    lines,          \* the lines of the HTTP response body
    prompt,         \* the compiled prompt
    request,        \* the request payload built by request()
    http_options,   \* the transport options built by request()
    gen,            \* the _openai_request generator: "none" | "created" |
                    \*   "at_single_yield" | "at_stream_yield" | "finished"
    pos,            \* the next response line the generator's for loop reads
    conn,           \* the urlopen response: "unopened" | "open" | "closed"
    headers,        \* the headers of the POST, once sent
    key_loads,      \* calls of utils.load_api_key so far
    http_calls,     \* calls of urlopen so far
    decoded,        \* the events the generator has yielded, in order
    chunks,         \* the chunks the caller has received, in order
    caller          \* "idle" | "iterating" | "exhausted" | "failed" | "abandoned"

----------------------------------------------------------------------------
(* Python values of the option mappings.  A float is kept in tenths.       *)

Str(s) == [t |-> "str", n |-> 0, s |-> s]
IntV(n) == [t |-> "int", n |-> n, s |-> <<>>]
FloatV(n) == [t |-> "float", n |-> n, s |-> <<>>]
BoolV(b) == [t |-> "bool", n |-> IF b THEN 1 ELSE 0, s |-> <<>>]
NoneV == [t |-> "none", n |-> 0, s |-> <<>>]

\* bool(value), as `if value:` and `a or b` evaluate it
Truthy(v) ==
    CASE v.t = "str" -> v.s # <<>>
      [] v.t = "none" -> FALSE
      [] OTHER -> v.n # 0

EmptyMap == [k \in {} |-> NoneV]

\* {**d, **r}
Merge(d, r) == [k \in (DOMAIN d) \cup (DOMAIN r) |-> IF k \in DOMAIN r THEN r[k] ELSE d[k]]

----------------------------------------------------------------------------
(* The converters of _parse_raw_options, on strings over the characters    *)
(* "0", "1", "x" and DQ (the double quote).                                *)

DQ == "dq"
IsDigit(c) == c \in {"0", "1"}
DigitVal(c) == IF c = "1" THEN 1 ELSE 0

AllDigits(s) == s # <<>> /\ \A i \in 1..Len(s) : IsDigit(s[i])

RECURSIVE DecimalValue(_)
DecimalValue(s) ==
    IF s = <<>> THEN 0
    ELSE 10 * DecimalValue(SubSeq(s, 1, Len(s) - 1)) + DigitVal(s[Len(s)])

Failed == [ok |-> FALSE, v |-> NoneV]
Converted(v) == [ok |-> TRUE, v |-> v]

\* int(x): decimal digits, leading zeros allowed; ValueError otherwise
PyInt(s) == IF AllDigits(s) THEN Converted(IntV(DecimalValue(s))) ELSE Failed

\* float(x)
PyFloat(s) == IF AllDigits(s) THEN Converted(FloatV(10 * DecimalValue(s))) ELSE Failed

\* lambda x: bool(int(x))
PyBoolInt(s) == IF AllDigits(s) THEN Converted(BoolV(DecimalValue(s) # 0)) ELSE Failed

\* str(x)
PyStr(s) == Converted(Str(s))

\* json.loads(x): a number without a leading zero, or a quoted string
JsonLoads(s) ==
    IF AllDigits(s) /\ (Len(s) = 1 \/ s[1] # "0")
    THEN Converted(IntV(DecimalValue(s)))
    ELSE IF /\ Len(s) >= 2
            /\ s[1] = DQ
            /\ s[Len(s)] = DQ
            /\ \A i \in 2..(Len(s) - 1) : s[i] # DQ
         THEN Converted(Str(SubSeq(s, 2, Len(s) - 1)))
         ELSE Failed

\* Convert with int for every converter
ConvertAlwaysInt(conv, s) == PyInt(s)

Convert(conv, s) ==
    CASE conv = "float" -> PyFloat(s)
      [] conv = "int" -> PyInt(s)
      [] conv = "bool_int" -> PyBoolInt(s)
      [] conv = "str" -> PyStr(s)
      [] conv = "json" -> JsonLoads(s)

\* the _convert_option calls, in order
ConvertOrder ==
    << "request_timeout", "temperature", "max_tokens", "top_p",
       "presence_penalty", "frequency_penalty", "best_of", "n", "stream",
       "logprobs", "suffix", "stop", "logit_bias" >>

ConverterOf ==
    [ request_timeout |-> "float", temperature |-> "float", max_tokens |-> "int",
      top_p |-> "float", presence_penalty |-> "float", frequency_penalty |-> "float",
      best_of |-> "int", n |-> "int", stream |-> "bool_int", logprobs |-> "int",
      suffix |-> "str", stop |-> "json", logit_bias |-> "json" ]

RecognisedKeys == {ConvertOrder[i] : i \in 1..Len(ConvertOrder)}

NoError == [msg |-> "none", key |-> "", value |-> NoneV]
InvalidValue(name, value) == [msg |-> "Invalid value for option", key |-> name, value |-> value]
UnsupportedCommand == [msg |-> "supports only :AI and :AIEdit commands", key |-> "", value |-> NoneV]

\* _convert_option(ConvertOrder[i], ...) and the calls after it
RECURSIVE ConvertFrom(_, _)
ConvertFrom(opts, i) ==
    IF i > Len(ConvertOrder) THEN [ok |-> TRUE, options |-> opts, error |-> NoError]
    ELSE LET name == ConvertOrder[i] IN
         IF name \in DOMAIN opts /\ opts[name].t = "str" /\ opts[name].s # <<>>
         THEN LET r == Convert(ConverterOf[name], opts[name].s) IN
              IF r.ok
              THEN ConvertFrom([opts EXCEPT ![name] = r.v], i + 1)
              ELSE [ok |-> FALSE, options |-> opts, error |-> InvalidValue(name, opts[name])]
         ELSE ConvertFrom(opts, i + 1)

parse_raw_options(raw) == ConvertFrom(raw, 1)

----------------------------------------------------------------------------
(* The host configuration.                                                 *)

CODEX_DEFAULTS ==
    [ model |-> Str(<<"code-davinci-002">>),
      endpoint_url |-> Str(<<"https://api.openai.com/v1/completions">>),
      suffix |-> Str(<<>>),
      max_tokens |-> IntV(256),
      temperature |-> FloatV(2),
      top_p |-> Str(<<>>),
      n |-> IntV(1),
      stream |-> IntV(1),
      logprobs |-> IntV(0),
      stop |-> Str(<<>>),
      presence_penalty |-> IntV(0),
      frequency_penalty |-> IntV(0),
      best_of |-> IntV(1),
      logit_bias |-> Str(<<>>),
      request_timeout |-> IntV(20),
      auth_type |-> Str(<<"bearer">>),
      token_file_path |-> Str(<<>>),
      token_load_fn |-> Str(<<>>) ]

\* getattr(self, f"default_options_varname_{command_type}", "")
config_varname(ct) ==
    CASE ct = "complete" -> "g:vim_ai_openai_codex_complete"
      [] ct = "edit" -> "g:vim_ai_openai_codex_edit"
      [] OTHER -> ""

\* vim.eval(config_varname) if config_varname else {}
raw_default_options(ct) ==
    IF config_varname(ct) # "" THEN CODEX_DEFAULTS ELSE EmptyMap

SupportedCommands == {"complete", "edit"}

----------------------------------------------------------------------------
(* _messages_to_prompt.  Message texts are strings over "a", " " and NL;   *)
(* a compiled block is its label, "::", NL and the text.                   *)

NL == "\n"

IsSpace(c) == c \in {" ", NL}

RECURSIVE LStrip(_)
LStrip(s) == IF s # <<>> /\ IsSpace(Head(s)) THEN LStrip(Tail(s)) ELSE s

RECURSIVE RStrip(_)
RStrip(s) == IF s # <<>> /\ IsSpace(s[Len(s)]) THEN RStrip(SubSeq(s, 1, Len(s) - 1)) ELSE s

\* str.strip()
Strip(s) == RStrip(LStrip(s))

\* sep.join(ss)
RECURSIVE Join(_, _)
Join(sep, ss) ==
    IF ss = <<>> THEN <<>>
    ELSE IF Len(ss) = 1 THEN ss[1]
    ELSE ss[1] \o sep \o Join(sep, Tail(ss))

\* s.startswith(p)
StartsWith(s, p) == Len(s) >= Len(p) /\ SubSeq(s, 1, Len(p)) = p

IsTextPart(c) == c.type = "text"
NonEmpty(s) == s # <<>>

\* [c.get("text", "") for c in message.get("content", []) if c.get("type") == "text"]
text_chunks(message) ==
    LET kept == SelectSeq(message.content, IsTextPart)
    IN [i \in 1..Len(kept) |-> IF kept[i].has_text THEN kept[i].text ELSE <<>>]

\* "\n".join(filter(None, text_chunks)).strip()
message_text(message) == Strip(Join(<<NL>>, SelectSeq(text_chunks(message), NonEmpty)))

\* role_labels.get(message.get("role", "user"), "User")
role_label(message) ==
    LET role == IF message.has_role THEN message.role ELSE "user"
    IN CASE role = "system" -> "System"
         [] role = "user" -> "User"
         [] role = "assistant" -> "Assistant"
         [] role = "tool" -> "Tool"
         [] OTHER -> "User"

\* f"{role}::\n{text}"
Block(label, text) == <<label, ":", ":", NL>> \o text

AssistantMarker == <<"Assistant", ":", ":">>

\* the for loop of _messages_to_prompt, from message i on
RECURSIVE CompileFrom(_, _, _)
CompileFrom(msgs, i, parts) ==
    IF i > Len(msgs) THEN parts
    ELSE LET text == message_text(msgs[i]) IN
         IF text = <<>>
         THEN CompileFrom(msgs, i + 1, parts)
         ELSE CompileFrom(msgs, i + 1, Append(parts, Block(role_label(msgs[i]), text)))

\* NeedsMarker without the startswith test
MarkerOnlyWhenEmpty(parts) == parts = <<>>

\* NeedsMarker with the marker appended unconditionally
MarkerAlways(parts) == TRUE

\* not prompt_parts or not prompt_parts[-1].startswith("Assistant::")
NeedsMarker(parts) == parts = <<>> \/ ~StartsWith(parts[Len(parts)], AssistantMarker)

\* prompt_parts at the return of _messages_to_prompt
compiled_parts(msgs) ==
    LET parts == CompileFrom(msgs, 1, <<>>)
    IN IF NeedsMarker(parts) THEN Append(parts, AssistantMarker) ELSE parts

messages_to_prompt(msgs) == Join(<<NL, NL>>, compiled_parts(msgs))

----------------------------------------------------------------------------
(* _make_codex_options and the request of request().                       *)

option_keys ==
    << "suffix", "max_tokens", "temperature", "top_p", "n", "stream", "logprobs",
       "stop", "presence_penalty", "frequency_penalty", "best_of", "logit_bias" >>

\* CountLike with every numeric key in it
CountLikeAllNumeric ==
    {"max_tokens", "logprobs", "best_of", "n", "temperature", "top_p",
     "presence_penalty", "frequency_penalty"}

CountLike == {"max_tokens", "logprobs", "best_of", "n"}

\* value in ("", None)
IsEmptySentinel(v) == v = Str(<<>>) \/ v.t = "none"

\* value == 0
EqualsZero(v) == v.t \in {"int", "float", "bool"} /\ v.n = 0

\* the for loop of _make_codex_options, from option_keys[i] on
RECURSIVE CollectFrom(_, _, _)
CollectFrom(opts, i, result) ==
    IF i > Len(option_keys) THEN result
    ELSE LET key == option_keys[i] IN
         IF key \notin DOMAIN opts THEN CollectFrom(opts, i + 1, result)
         ELSE IF IsEmptySentinel(opts[key]) THEN CollectFrom(opts, i + 1, result)
         ELSE IF key \in CountLike /\ EqualsZero(opts[key]) THEN CollectFrom(opts, i + 1, result)
         ELSE CollectFrom(opts, i + 1, Merge(result, [k \in {key} |-> opts[key]]))

make_codex_options(opts) == CollectFrom(opts, 1, [k \in {"model"} |-> opts["model"]])

\* options.get("request_timeout") or 20, and the three copied options
make_http_options(opts) ==
    [ request_timeout |->
          IF "request_timeout" \in DOMAIN opts /\ Truthy(opts["request_timeout"])
          THEN opts["request_timeout"] ELSE IntV(20),
      auth_type |-> opts["auth_type"],
      token_file_path |-> opts["token_file_path"],
      token_load_fn |-> opts["token_load_fn"] ]

----------------------------------------------------------------------------
(* OpenAICodexProvider.__init__ as a function of its arguments.            *)

\* _ensure_supported_command
ensure_supported_command(ct) ==
    IF ct \notin SupportedCommands THEN UnsupportedCommand ELSE NoError

construct(ct, raw) ==
    LET merged_options == Merge(raw_default_options(ct), raw)
        parsed == parse_raw_options(merged_options)
    IN IF ~parsed.ok
       THEN [pc |-> "failed", options |-> EmptyMap, error |-> parsed.error]
       ELSE IF ensure_supported_command(ct) # NoError
       THEN [pc |-> "failed", options |-> parsed.options, error |-> ensure_supported_command(ct)]
       ELSE [pc |-> "constructed", options |-> parsed.options, error |-> NoError]

----------------------------------------------------------------------------
(* _load_api_key and the headers of _openai_request.  Credentials are      *)
(* strings over "k", "o", "," and " ".                                     *)

\* the index of the first sep in s, or 0
RECURSIVE FindFrom(_, _, _)
FindFrom(s, sep, i) ==
    IF i > Len(s) THEN 0
    ELSE IF s[i] = sep THEN i
    ELSE FindFrom(s, sep, i + 1)

\* s.split(sep)
RECURSIVE Split(_, _)
Split(s, sep) ==
    LET i == FindFrom(s, sep, 1)
    IN IF i = 0 THEN <<s>>
       ELSE <<SubSeq(s, 1, i - 1)>> \o Split(SubSeq(s, i + 1, Len(s)), sep)

NoOrg == [present |-> FALSE, id |-> <<>>]

\* (api_key, org_id) of _load_api_key
load_api_key(raw_api_key) ==
    LET elements == Split(Strip(raw_api_key), ",")
    IN [ api_key |-> Strip(elements[1]),
         org_id |-> IF Len(elements) > 1
                    THEN [present |-> TRUE, id |-> Strip(elements[2])]
                    ELSE NoOrg ]

BaseHeaders ==
    [h \in {"Content-Type", "User-Agent"} |->
        IF h = "Content-Type" THEN <<"application/json">> ELSE <<"VimAI">>]

Header(name, value) == [h \in {name} |-> value]

\* auth_headers with `if org_id is not None` for `if org_id`
auth_headers_org_whenever_present(auth_type, raw_api_key) ==
    LET k == load_api_key(raw_api_key)
    IN IF auth_type = Str(<<"bearer">>)
       THEN Merge(Header("Authorization", <<"Bearer ">> \o k.api_key),
                  IF k.org_id.present
                  THEN Header("OpenAI-Organization", k.org_id.id) ELSE EmptyMap)
       ELSE IF auth_type = Str(<<"api-key">>) THEN Header("api-key", k.api_key)
       ELSE EmptyMap

\* the headers the auth_type branch adds
auth_headers(auth_type, raw_api_key) ==
    LET k == load_api_key(raw_api_key)
    IN IF auth_type = Str(<<"bearer">>)
       THEN Merge(Header("Authorization", <<"Bearer ">> \o k.api_key),
                  IF k.org_id.present /\ k.org_id.id # <<>>
                  THEN Header("OpenAI-Organization", k.org_id.id) ELSE EmptyMap)
       ELSE IF auth_type = Str(<<"api-key">>) THEN Header("api-key", k.api_key)
       ELSE EmptyMap

\* whether the branch taken calls self._load_api_key()
loads_key(auth_type) == auth_type \in {Str(<<"bearer">>), Str(<<"api-key">>)}

----------------------------------------------------------------------------
(* Response lines, json.loads of a payload, and _map_chunk.  A line is a   *)
(* sequence of the tokens "data:", " ", NL, "[DONE]", "x" and the JSON     *)
(* objects named in ResponseEvents.                                        *)

Choice(text) == [has_text |-> TRUE, text |-> text]
NoTextChoice == [has_text |-> FALSE, text |-> <<>>]
Event(choices) == [has_choices |-> TRUE, choices |-> choices]
NoChoicesEvent == [has_choices |-> FALSE, choices |-> <<>>]

ResponseEvents ==
    [ hi |-> Event(<<Choice(<<"H", "i">>)>>),
      yo |-> Event(<<Choice(<<"Y", "o">>), Choice(<<"N", "o">>)>>),
      empty |-> Event(<<Choice(<<>>)>>),
      notext |-> Event(<<NoTextChoice>>),
      zero |-> Event(<<>>),
      nochoices |-> NoChoicesEvent ]

NoEvent == NoChoicesEvent

\* json.loads(s): surrounding whitespace is skipped; one JSON object, or an error
json_loads(s) ==
    LET p == Strip(s)
    IN IF Len(p) = 1 /\ p[1] \in DOMAIN ResponseEvents
       THEN [ok |-> TRUE, v |-> ResponseEvents[p[1]]]
       ELSE [ok |-> FALSE, v |-> NoEvent]

NoChunk == [type |-> "none", content |-> <<>>]

\* _map_chunk reading choices[-1]
map_chunk_last_choice(resp) ==
    LET choices == IF resp.has_choices /\ resp.choices # <<>>
                   THEN resp.choices ELSE <<NoTextChoice>>
        text == IF choices[Len(choices)].has_text THEN choices[Len(choices)].text ELSE <<>>
    IN IF text # <<>> THEN [type |-> "assistant", content |-> text] ELSE NoChunk

\* _map_chunk; NoChunk is its None
map_chunk(resp) ==
    LET choices == IF resp.has_choices /\ resp.choices # <<>>
                   THEN resp.choices ELSE <<NoTextChoice>>
        text == IF choices[1].has_text THEN choices[1].text ELSE <<>>
    IN IF text # <<>> THEN [type |-> "assistant", content |-> text] ELSE NoChunk

resp_data_prefix == <<"data:", " ">>
resp_done == <<"[DONE]">>

DecodeError == [msg |-> "JSONDecodeError", key |-> "", value |-> NoneV]

\* line[len(resp_data_prefix):].strip()
line_payload(line) == Strip(SubSeq(line, Len(resp_data_prefix) + 1, Len(line)))

\* payload == resp_done
is_done(payload) == payload = resp_done

\* StreamPull with `break` for `continue` at the [DONE] line
RECURSIVE StreamPullDoneBreaks(_, _, _)
StreamPullDoneBreaks(ls, i, seen) ==
    IF i > Len(ls)
    THEN [outcome |-> "stop", pos |-> i, decoded |-> seen, chunk |-> NoChunk]
    ELSE IF ~StartsWith(ls[i], resp_data_prefix) THEN StreamPullDoneBreaks(ls, i + 1, seen)
    ELSE IF is_done(line_payload(ls[i]))
    THEN [outcome |-> "stop", pos |-> i, decoded |-> seen, chunk |-> NoChunk]
    ELSE LET r == json_loads(line_payload(ls[i])) IN
         IF ~r.ok
         THEN [outcome |-> "error", pos |-> i, decoded |-> seen, chunk |-> NoChunk]
         ELSE IF map_chunk(r.v) = NoChunk
         THEN StreamPullDoneBreaks(ls, i + 1, Append(seen, r.v))
         ELSE [outcome |-> "chunk", pos |-> i + 1, decoded |-> Append(seen, r.v),
               chunk |-> map_chunk(r.v)]

\* StreamPull with a try/except that skips a line json.loads rejects
RECURSIVE StreamPullSkipsBadJson(_, _, _)
StreamPullSkipsBadJson(ls, i, seen) ==
    IF i > Len(ls)
    THEN [outcome |-> "stop", pos |-> i, decoded |-> seen, chunk |-> NoChunk]
    ELSE IF ~StartsWith(ls[i], resp_data_prefix) THEN StreamPullSkipsBadJson(ls, i + 1, seen)
    ELSE IF is_done(line_payload(ls[i])) THEN StreamPullSkipsBadJson(ls, i + 1, seen)
    ELSE LET r == json_loads(line_payload(ls[i])) IN
         IF ~r.ok
         THEN StreamPullSkipsBadJson(ls, i + 1, seen)
         ELSE IF map_chunk(r.v) = NoChunk
         THEN StreamPullSkipsBadJson(ls, i + 1, Append(seen, r.v))
         ELSE [outcome |-> "chunk", pos |-> i + 1, decoded |-> Append(seen, r.v),
               chunk |-> map_chunk(r.v)]

\* One next() on filter(None, map(_map_chunk, response)) with the generator
\* suspended in the for loop after line i - 1: the generator is resumed until an
\* event maps to a chunk, the lines run out or json.loads raises.
RECURSIVE StreamPull(_, _, _)
StreamPull(ls, i, seen) ==
    IF i > Len(ls)
    THEN [outcome |-> "stop", pos |-> i, decoded |-> seen, chunk |-> NoChunk]
    ELSE IF ~StartsWith(ls[i], resp_data_prefix) THEN StreamPull(ls, i + 1, seen)
    ELSE IF is_done(line_payload(ls[i])) THEN StreamPull(ls, i + 1, seen)
    ELSE LET r == json_loads(line_payload(ls[i])) IN
         IF ~r.ok
         THEN [outcome |-> "error", pos |-> i, decoded |-> seen, chunk |-> NoChunk]
         ELSE IF map_chunk(r.v) = NoChunk THEN StreamPull(ls, i + 1, Append(seen, r.v))
         ELSE [outcome |-> "chunk", pos |-> i + 1, decoded |-> Append(seen, r.v),
               chunk |-> map_chunk(r.v)]

\* response.read(): the whole body
Body(ls) == Join(<<>>, ls)

\* not data.get("stream")
is_streaming(data) == "stream" \in DOMAIN data /\ Truthy(data["stream"])

----------------------------------------------------------------------------
(* Inputs.                                                                 *)

CommandTypes == {"complete", "chat"}

MaxOverrides == 2

RawValues ==
    { Str(<<>>), Str(<<"0">>), Str(<<"0", "1">>), Str(<<"x">>), Str(<<DQ, DQ>>), NoneV }

Overrides(keys) ==
    UNION { [ks -> RawValues] : ks \in {x \in SUBSET keys : Cardinality(x) <= MaxOverrides} }

TextPart(text) == [type |-> "text", has_text |-> TRUE, text |-> text]

Contents ==
    { <<TextPart(<<"a">>)>>,
      <<TextPart(<<" ", NL>>)>>,
      <<[type |-> "image_url", has_text |-> TRUE, text |-> <<"a">>]>>,
      <<TextPart(<<" ", "a">>), [type |-> "text", has_text |-> FALSE, text |-> <<>>],
        TextPart(<<>>), TextPart(<<"a", NL>>)>> }

Roles == {"system", "user", "assistant", "tool", "function"}

Messages ==
    [has_role : {TRUE}, role : Roles, content : Contents]
    \cup [has_role : {FALSE}, role : {""}, content : Contents]

MaxMsgs == 2

MessageSeqs == UNION { [1..k -> Messages] : k \in 0..MaxMsgs }

DefaultMessages ==
    << [has_role |-> TRUE, role |-> "system", content |-> <<TextPart(<<"a">>)>>],
       [has_role |-> TRUE, role |-> "user", content |-> <<TextPart(<<"a">>)>>] >>

DataLine(payload) == resp_data_prefix \o payload \o <<NL>>

Lines ==
    { DataLine(<<e>>) : e \in DOMAIN ResponseEvents }
    \cup { DataLine(resp_done), DataLine(<<"x">>), <<"data:", "hi", NL>>, <<NL>> }

MaxLines == 3

LineSeqs == UNION { [1..k -> Lines] : k \in 0..MaxLines }

DefaultLines == <<DataLine(<<"hi">>)>>

StreamOverrides == { EmptyMap, [k \in {"stream"} |-> Str(<<"0">>)] }

CredChars == {"k", "o", ",", " "}

MaxCredLen == 3

Credentials == UNION { [1..k -> CredChars] : k \in 0..MaxCredLen }

DefaultCredential == <<"k">>

AuthTypes == { Str(<<"bearer">>), Str(<<"api-key">>), Str(<<"basic">>), Str(<<>>), NoneV }

AuthOverrides == { [k \in {"auth_type"} |-> v] : v \in AuthTypes }

----------------------------------------------------------------------------

ctor_vars == <<command_type, raw_options, options>>
input_vars == <<messages, credential, lines>>
request_vars == <<prompt, request, http_options>>
iter_vars == <<gen, pos, conn, headers, key_loads, http_calls, decoded, chunks>>

vars ==
    <<command_type, raw_options, pc, options, error, messages, credential, lines,
      prompt, request, http_options, gen, pos, conn, headers, key_loads, http_calls,
      decoded, chunks, caller>>

InitState ==
    /\ pc = "new"
    /\ options = EmptyMap
    /\ error = NoError
    /\ prompt = <<>>
    /\ request = EmptyMap
    /\ http_options = EmptyMap
    /\ gen = "none"
    /\ pos = 1
    /\ conn = "unopened"
    /\ headers = EmptyMap
    /\ key_loads = 0
    /\ http_calls = 0
    /\ decoded = <<>>
    /\ chunks = <<>>
    /\ caller = "idle"

\* the arguments vary one family at a time around the defaults
Init ==
    /\ InitState
    /\ \/ /\ command_type \in CommandTypes
          /\ raw_options \in Overrides(RecognisedKeys)
          /\ messages = DefaultMessages
          /\ credential = DefaultCredential
          /\ lines = DefaultLines
       \/ /\ command_type = "complete"
          /\ raw_options = EmptyMap
          /\ messages \in MessageSeqs
          /\ credential = DefaultCredential
          /\ lines = DefaultLines
       \/ /\ command_type = "complete"
          /\ raw_options \in StreamOverrides
          /\ messages = DefaultMessages
          /\ credential = DefaultCredential
          /\ lines \in LineSeqs
       \/ /\ command_type = "edit"
          /\ raw_options \in AuthOverrides
          /\ messages = DefaultMessages
          /\ credential \in Credentials
          /\ lines = DefaultLines

\* OpenAICodexProvider.__init__
Construct ==
    /\ pc = "new"
    /\ LET r == construct(command_type, raw_options)
       IN /\ pc' = r.pc
          /\ options' = r.options
          /\ error' = r.error
    /\ UNCHANGED <<command_type, raw_options, input_vars, request_vars, iter_vars, caller>>

\* OpenAICodexProvider.request: nothing of _openai_request runs before the first next()
Request ==
    /\ pc = "constructed"
    /\ pc' = "requested"
    /\ prompt' = messages_to_prompt(messages)
    /\ http_options' = make_http_options(options)
    /\ request' = Merge([k \in {"prompt"} |-> Str(messages_to_prompt(messages))],
                        make_codex_options(options))
    /\ gen' = "created"
    /\ caller' = "iterating"
    /\ UNCHANGED <<ctor_vars, error, input_vars, pos, conn, headers, key_loads,
                   http_calls, decoded, chunks>>

\* the caller's next() on the iterator request() returned
pull_result ==
    CASE gen = "finished" ->
            [outcome |-> "stop", pos |-> pos, decoded |-> decoded, chunk |-> NoChunk]
      [] gen = "at_single_yield" ->
            [outcome |-> "stop", pos |-> pos, decoded |-> decoded, chunk |-> NoChunk]
      [] gen = "at_stream_yield" -> StreamPull(lines, pos, decoded)
      [] gen = "created" /\ is_streaming(request) -> StreamPull(lines, 1, decoded)
      [] gen = "created" /\ ~is_streaming(request) ->
            LET r == json_loads(Body(lines)) IN
            IF ~r.ok
            THEN [outcome |-> "error", pos |-> pos, decoded |-> decoded, chunk |-> NoChunk]
            ELSE IF map_chunk(r.v) = NoChunk
            THEN [outcome |-> "stop", pos |-> pos, decoded |-> <<r.v>>, chunk |-> NoChunk]
            ELSE [outcome |-> "chunk", pos |-> pos, decoded |-> <<r.v>>,
                  chunk |-> map_chunk(r.v)]

Pull ==
    /\ pc = "requested"
    /\ caller \in {"iterating", "failed", "exhausted"}
    /\ LET r == pull_result IN
       /\ pos' = r.pos
       /\ decoded' = r.decoded
       /\ chunks' = IF r.outcome = "chunk" THEN Append(chunks, r.chunk) ELSE chunks
       /\ gen' = IF r.outcome = "chunk"
                 THEN (IF is_streaming(request) THEN "at_stream_yield" ELSE "at_single_yield")
                 ELSE "finished"
       /\ conn' = IF r.outcome = "chunk" THEN "open"
                  ELSE IF gen = "finished" THEN conn ELSE "closed"
       /\ caller' = CASE r.outcome = "chunk" -> "iterating"
                      [] r.outcome = "stop" -> "exhausted"
                      [] r.outcome = "error" -> "failed"
       /\ error' = IF r.outcome = "error" THEN DecodeError ELSE error
    /\ IF gen = "created"
       THEN /\ headers' = Merge(BaseHeaders, auth_headers(http_options.auth_type, credential))
            /\ key_loads' = IF loads_key(http_options.auth_type) THEN key_loads + 1 ELSE key_loads
            /\ http_calls' = http_calls + 1
       ELSE UNCHANGED <<headers, key_loads, http_calls>>
    /\ UNCHANGED <<ctor_vars, pc, input_vars, request_vars>>

\* the caller stops pulling and keeps or drops the iterator
Abandon ==
    /\ pc = "requested"
    /\ caller = "iterating"
    /\ caller' = "abandoned"
    /\ UNCHANGED <<ctor_vars, pc, error, input_vars, request_vars, iter_vars>>

\* the interpreter finalises the abandoned generator: GeneratorExit is raised at the
\* yield it is suspended at and the with block closes the response
Finalize ==
    /\ caller = "abandoned"
    /\ gen # "finished"
    /\ gen' = "finished"
    /\ conn' = IF conn = "open" THEN "closed" ELSE conn
    /\ UNCHANGED <<ctor_vars, pc, error, input_vars, request_vars, pos, headers,
                   key_loads, http_calls, decoded, chunks, caller>>

Next == Construct \/ Request \/ Pull \/ Abandon \/ Finalize

Spec == Init /\ [][Next]_vars

----------------------------------------------------------------------------
(* Properties.                                                             *)

IsPrefix(a, b) == Len(a) <= Len(b) /\ SubSeq(b, 1, Len(a)) = a

EndsWith(s, x) == Len(s) >= Len(x) /\ SubSeq(s, Len(s) - Len(x) + 1, Len(s)) = x

MergedOptions == Merge(raw_default_options(command_type), raw_options)

(* C1: constructing the provider with a command type other than "complete" *)
(* or "edit" fails with the unsupported-command error, whatever the raw    *)
(* options are, and no credential has been retrieved and no HTTP call made *)
(* by then.                                                                *)
C1_UnsupportedCommandIsCapabilityError ==
    (pc # "new" /\ command_type \notin {"complete", "edit"}) =>
        /\ pc = "failed"
        /\ error = UnsupportedCommand
        /\ key_loads = 0
        /\ http_calls = 0

----------------------------------------------------------------------------

IsAssistantTurn(m) == m.has_role /\ m.role = "assistant"

HasText(m) == message_text(m) # <<>>

\* the prompt's final block is a body-less "Assistant::"
EndsWithBareMarker(p) == p = AssistantMarker \/ EndsWith(p, <<NL, NL>> \o AssistantMarker)

\* the last message that contributes a block, or 0
LastWithText(msgs) ==
    IF \E i \in 1..Len(msgs) : HasText(msgs[i])
    THEN CHOOSE i \in 1..Len(msgs) :
            HasText(msgs[i]) /\ \A j \in (i + 1)..Len(msgs) : ~HasText(msgs[j])
    ELSE 0

(* C2, as stated: when the message sequence is empty or its last message   *)
(* is not an assistant turn, the compiled prompt ends with a body-less     *)
(* "Assistant::" block.                                                    *)
C2_NonAssistantLastEndsWithMarker ==
    (pc = "requested" /\ (messages = <<>> \/ ~IsAssistantTurn(messages[Len(messages)]))) =>
        EndsWithBareMarker(prompt)

(* C2, amended: when no message contributes text, or the last message that *)
(* contributes text is not an assistant turn, the compiled prompt ends     *)
(* with a body-less "Assistant::" block.                                   *)
C2_NonAssistantLastBlockEndsWithMarker ==
    pc = "requested" =>
        LET last == LastWithText(messages)
        IN (last = 0 \/ ~IsAssistantTurn(messages[last])) => EndsWithBareMarker(prompt)

C2_Witness ==
    /\ pc = "requested"
    /\ Len(messages) = 2
    /\ IsAssistantTurn(messages[1]) /\ HasText(messages[1])
    /\ ~IsAssistantTurn(messages[2]) /\ HasText(messages[2])
    /\ EndsWithBareMarker(prompt)

(* C7, as stated: when the last message is an assistant turn, no trailing  *)
(* "Assistant::" marker is appended to the compiled prompt.                *)
C7_AssistantLastNoMarker ==
    (pc = "requested" /\ messages # <<>> /\ IsAssistantTurn(messages[Len(messages)])) =>
        ~EndsWithBareMarker(prompt)

(* C7, amended: when the last message that contributes text is an          *)
(* assistant turn, no trailing marker is appended: the prompt ends with    *)
(* that message's "Assistant::" block.                                     *)
C7_AssistantLastBlockNoMarker ==
    pc = "requested" =>
        LET last == LastWithText(messages)
        IN (last # 0 /\ IsAssistantTurn(messages[last])) =>
              /\ ~EndsWithBareMarker(prompt)
              /\ EndsWith(prompt, <<"Assistant", ":", ":", NL>> \o message_text(messages[last]))

C7_Witness ==
    /\ pc = "requested"
    /\ Len(messages) = 2
    /\ ~IsAssistantTurn(messages[1]) /\ HasText(messages[1])
    /\ IsAssistantTurn(messages[2]) /\ HasText(messages[2])
    /\ ~EndsWithBareMarker(prompt)

----------------------------------------------------------------------------

FirstChoiceText(e) ==
    IF e.has_choices /\ Len(e.choices) >= 1 /\ e.choices[1].has_text
    THEN e.choices[1].text ELSE <<>>

HasFirstChoiceText(e) == FirstChoiceText(e) # <<>>

ExpectedChunks(events) ==
    LET kept == SelectSeq(events, HasFirstChoiceText)
    IN [i \in 1..Len(kept) |-> [type |-> "assistant", content |-> FirstChoiceText(kept[i])]]

(* C3: the chunks the caller has received are, in event order, one         *)
(* {type: "assistant", content: t} per decoded event whose choices[0].text *)
(* t is non-empty, and nothing for any other event.                        *)
C3_ChunksAreMappedEvents == chunks = ExpectedChunks(decoded)

C3_Witness ==
    /\ caller = "exhausted"
    /\ Len(decoded) = 3
    /\ Len(chunks) = 1
    /\ Len(decoded[2].choices) = 2
    /\ chunks[1].content = decoded[2].choices[1].text

----------------------------------------------------------------------------

IsDataLine(l) == Len(l) >= 2 /\ l[1] = "data:" /\ l[2] = " "

PayloadOf(l) == Strip(SubSeq(l, 3, Len(l)))

IsPayloadLine(l) == IsDataLine(l) /\ PayloadOf(l) # <<"[DONE]">>

IsJsonObject(payload) == Len(payload) = 1 /\ payload[1] \in DOMAIN ResponseEvents

WellFormed(ls) == \A i \in 1..Len(ls) : IsPayloadLine(ls[i]) => IsJsonObject(PayloadOf(ls[i]))

ExpectedDecoded(ls) ==
    LET kept == SelectSeq(ls, IsPayloadLine)
    IN [i \in 1..Len(kept) |-> ResponseEvents[PayloadOf(kept[i])[1]]]

Streaming == pc = "requested" /\ "stream" \in DOMAIN request /\ Truthy(request["stream"])

(* C4: in streaming mode with well-formed data payloads, the decoder       *)
(* yields, in line order, the parsed payloads of the lines that start with *)
(* "data: " and are not "[DONE]", it never fails, and the sequence ends    *)
(* only after the last line has been read.                                 *)
C4_StreamDecodesDataLines ==
    (Streaming /\ WellFormed(lines)) =>
        LET expected == ExpectedDecoded(lines)
        IN /\ IsPrefix(decoded, expected)
           /\ caller # "failed"
           /\ caller = "exhausted" => (decoded = expected /\ pos = Len(lines) + 1)

C4_Witness ==
    /\ Streaming
    /\ caller = "exhausted"
    /\ Len(lines) = 3
    /\ IsDataLine(lines[1]) /\ PayloadOf(lines[1]) = <<"[DONE]">>
    /\ ~IsDataLine(lines[2])
    /\ IsPayloadLine(lines[3]) /\ IsJsonObject(PayloadOf(lines[3]))
    /\ decoded = <<ResponseEvents[PayloadOf(lines[3])[1]]>>

----------------------------------------------------------------------------

IsBadLine(l) == IsPayloadLine(l) /\ ~IsJsonObject(PayloadOf(l))

FirstBad(ls) == CHOOSE i \in 1..Len(ls) : IsBadLine(ls[i]) /\ \A j \in 1..(i - 1) : ~IsBadLine(ls[j])

ChunksBefore(ls, i) == ExpectedChunks(ExpectedDecoded(SubSeq(ls, 1, i - 1)))

(* C8: in streaming mode, when some data line's payload is not JSON, the   *)
(* pull that reaches the first such line fails with the decode error; by   *)
(* then the caller has received exactly the chunks of the earlier lines,   *)
(* and no later pull adds a chunk.                                         *)
C8_BadJsonEndsStream ==
    (Streaming /\ ~WellFormed(lines)) =>
        LET bad == FirstBad(lines)
            before == ChunksBefore(lines, bad)
        IN /\ IsPrefix(chunks, before)
           /\ caller \in {"failed", "exhausted"} =>
                 /\ error = DecodeError
                 /\ chunks = before
                 /\ gen = "finished"
           /\ caller = "failed" => pos = bad

C8_Witness ==
    /\ Streaming
    /\ caller = "exhausted"
    /\ error = DecodeError
    /\ Len(lines) = 3
    /\ IsBadLine(lines[2])
    /\ IsPayloadLine(lines[3]) /\ IsJsonObject(PayloadOf(lines[3]))
    /\ ExpectedChunks(ExpectedDecoded(<<lines[3]>>)) # <<>>
    /\ Len(chunks) = 1

----------------------------------------------------------------------------

(* C9: once the HTTP connection has been opened it is closed whenever the  *)
(* response sequence is exhausted, has failed or has been abandoned.       *)
C9_ConnectionClosedAtEnd ==
    (http_calls > 0 /\ caller \in {"exhausted", "failed", "abandoned"}) => conn = "closed"

----------------------------------------------------------------------------

HasComma(c) == \E i \in 1..Len(c) : c[i] = ","

\* the whitespace-trimmed k-th comma-segment
Segment(c, k) == Strip(Split(c, ",")[k])

Sent == http_calls > 0

AuthHeaderNames == {"Authorization", "OpenAI-Organization", "api-key"}

AuthHeadersSent == AuthHeaderNames \cap DOMAIN headers

(* C10, as stated: bearer mode sends Authorization: Bearer <first segment> *)
(* and the organization header exactly when the credential has a second    *)
(* comma-segment; api-key mode sends only api-key: <first segment>; any    *)
(* other mode sends none of the three headers.                             *)
C10_OrgHeaderIffSecondSegment ==
    Sent =>
        CASE http_options.auth_type = Str(<<"bearer">>) ->
                /\ AuthHeadersSent = {"Authorization"} \cup
                        (IF HasComma(credential) THEN {"OpenAI-Organization"} ELSE {})
                /\ headers["Authorization"] = <<"Bearer ">> \o Segment(credential, 1)
          [] http_options.auth_type = Str(<<"api-key">>) ->
                /\ AuthHeadersSent = {"api-key"}
                /\ headers["api-key"] = Segment(credential, 1)
          [] OTHER -> AuthHeadersSent = {}

(* C10, amended: as stated, except that bearer mode sends the organization *)
(* header exactly when the credential has a second comma-segment that is   *)
(* not blank, with that segment trimmed as its value; the key sent is the  *)
(* trimmed first segment.                                                  *)
C10_OrgHeaderIffSecondSegmentNotBlank ==
    Sent =>
        CASE http_options.auth_type = Str(<<"bearer">>) ->
                /\ AuthHeadersSent = {"Authorization"} \cup
                        (IF HasComma(credential) /\ Segment(credential, 2) # <<>>
                         THEN {"OpenAI-Organization"} ELSE {})
                /\ headers["Authorization"] = <<"Bearer ">> \o Segment(credential, 1)
                /\ "OpenAI-Organization" \in DOMAIN headers =>
                        headers["OpenAI-Organization"] = Segment(credential, 2)
          [] http_options.auth_type = Str(<<"api-key">>) ->
                /\ AuthHeadersSent = {"api-key"}
                /\ headers["api-key"] = Segment(credential, 1)
          [] OTHER -> AuthHeadersSent = {}

C10_Witness ==
    /\ Sent
    /\ http_options.auth_type = Str(<<"bearer">>)
    /\ credential = <<"k", ",", " ">>
    /\ AuthHeadersSent = {"Authorization"}

----------------------------------------------------------------------------

AllowlistedKeys ==
    {"suffix", "max_tokens", "temperature", "top_p", "n", "stream", "logprobs", "stop",
     "presence_penalty", "frequency_penalty", "best_of", "logit_bias"}

IsZero(v) == v.t \in {"int", "float"} /\ v.n = 0

(* C5: an allowlisted key is in the payload, with the option's value,      *)
(* exactly when it is present in the options, its value is neither "" nor  *)
(* None, and it is not a 0 of max_tokens, logprobs, best_of or n; a 0 of   *)
(* any other numeric key is sent.                                          *)
C5_PayloadKeepsSetOptions ==
    pc = "requested" =>
        /\ DOMAIN request = {"prompt", "model"} \cup (AllowlistedKeys \cap DOMAIN request)
        /\ \A key \in AllowlistedKeys :
              /\ key \in DOMAIN request <=>
                    /\ key \in DOMAIN options
                    /\ options[key] # Str(<<>>)
                    /\ options[key] # NoneV
                    /\ ~(key \in {"max_tokens", "logprobs", "best_of", "n"} /\ IsZero(options[key]))
              /\ key \in DOMAIN request => request[key] = options[key]

C5_Witness ==
    /\ pc = "requested"
    /\ options["max_tokens"] = IntV(0)
    /\ "max_tokens" \notin DOMAIN request
    /\ options["temperature"] = FloatV(0)
    /\ "temperature" \in DOMAIN request
    /\ request["temperature"] = FloatV(0)

----------------------------------------------------------------------------

TargetType ==
    [ request_timeout |-> "float", temperature |-> "float", max_tokens |-> "int",
      top_p |-> "float", presence_penalty |-> "float", frequency_penalty |-> "float",
      best_of |-> "int", n |-> "int", stream |-> "bool", logprobs |-> "int",
      suffix |-> "str", stop |-> "json", logit_bias |-> "json" ]

\* what Python makes of the sample strings: int("01") is 1, json.loads("01") fails
Coerced(type, s) ==
    CASE type = "str" -> <<Str(s)>>
      [] type = "int" /\ s = <<"0">> -> <<IntV(0)>>
      [] type = "int" /\ s = <<"0", "1">> -> <<IntV(1)>>
      [] type = "float" /\ s = <<"0">> -> <<FloatV(0)>>
      [] type = "float" /\ s = <<"0", "1">> -> <<FloatV(10)>>
      [] type = "bool" /\ s = <<"0">> -> <<BoolV(FALSE)>>
      [] type = "bool" /\ s = <<"0", "1">> -> <<BoolV(TRUE)>>
      [] type = "json" /\ s = <<"0">> -> <<IntV(0)>>
      [] type = "json" /\ s = <<DQ, DQ>> -> <<Str(<<>>)>>
      [] OTHER -> <<>>

IsRawString(m, k) == k \in DOMAIN m /\ m[k].t = "str" /\ m[k].s # <<>>

Uncoercible(m, k) == IsRawString(m, k) /\ Coerced(TargetType[k], m[k].s) = <<>>

\* the place in the coercion order of the first key whose string cannot be coerced, or 0
FirstUncoercible(m) ==
    LET bad == {i \in 1..Len(ConvertOrder) : Uncoercible(m, ConvertOrder[i])}
    IN IF bad = {} THEN 0 ELSE CHOOSE i \in bad : \A j \in bad : i <= j

Normalized(m) ==
    /\ DOMAIN options = DOMAIN m
    /\ \A k \in DOMAIN m :
          options[k] = IF k \in RecognisedKeys /\ IsRawString(m, k)
                       THEN Coerced(TargetType[k], m[k].s)[1]
                       ELSE m[k]

(* C6, as stated: for every recognised key whose raw value is a non-empty  *)
(* string, either normalization has put the coerced value in its place, or *)
(* construction has failed with the invalid-value error naming that key    *)
(* and its raw value; all other values pass through unchanged.             *)
C6_EachKeyCoercedOrNamed ==
    pc # "new" =>
        LET m == MergedOptions IN
        \A k \in RecognisedKeys : IsRawString(m, k) =>
            \/ Normalized(m)
            \/ pc = "failed" /\ error = InvalidValue(k, m[k])

(* C6, amended: either every recognised key with a non-empty string value  *)
(* has been replaced by its coerced value and all other values are         *)
(* unchanged, or construction has failed with the invalid-value error      *)
(* naming the first key, in coercion order, whose string cannot be         *)
(* coerced, and its raw value.                                             *)
C6_CoercedOrFirstBadKeyNamed ==
    pc # "new" =>
        LET m == MergedOptions
            b == FirstUncoercible(m)
        IN IF b # 0
           THEN pc = "failed" /\ error = InvalidValue(ConvertOrder[b], m[ConvertOrder[b]])
           ELSE Normalized(m) /\ error.msg # "Invalid value for option"

C6_Witness ==
    /\ pc = "constructed"
    /\ raw_options = [k \in {"max_tokens", "stop"} |->
                        IF k = "max_tokens" THEN Str(<<"0", "1">>) ELSE Str(<<DQ, DQ>>)]
    /\ options["max_tokens"] = IntV(1)
    /\ options["stop"] = Str(<<>>)

====
